---- MODULE Spec2Model ----
(***************************************************************************)
(* Model of src/main.rs: the Mandelbrot escape-time evaluator escape_time  *)
(* and the generic delimited-pair parser parse_pair (instantiated at i32). *)
(*                                                                         *)
(* Both are pure functions.  Each is an operator computed the way the code *)
(* computes it; a specification draws the arguments from bounded sets in   *)
(* its initial states and one action performs the call.                    *)
(*                                                                         *)
(* f64 values are modelled as IEEE doubles restricted to dyadic rationals  *)
(* n / 2^e with small n and e, plus +inf, -inf and NaN.  On these values   *)
(* every IEEE operation used by the code is exact (the exact result is     *)
(* representable, so round-to-nearest returns it); the bounds keep all     *)
(* intermediate values inside that range.                                  *)
(***************************************************************************)
EXTENDS Integers, Sequences, FiniteSets

VARIABLES pc, c, limit, z, iters, result, s, separator, parsed

vars == <<pc, c, limit, z, iters, result, s, separator, parsed>>

(***************************************************************************)
(* Bounds of the model.                                                    *)
(***************************************************************************)
\* limit ranges over 0..MaxLimit
MaxLimit == 3
\* re and im of c range over k/2 for k in -MaxC..MaxC (and inf, -inf, NaN)
MaxC == 6
\* strings have at most MaxLen characters
MaxLen == 4

(***************************************************************************)
(* Option<T>                                                               *)
(***************************************************************************)
None == [tag |-> "None", val |-> 0]
Some(v) == [tag |-> "Some", val |-> v]

(***************************************************************************)
(* f64                                                                     *)
(***************************************************************************)
Pow2(e) == 2 ^ e

RECURSIVE Reduce(_, _)
\* the finite double n / 2^e, in lowest terms
Reduce(n, e) ==
  IF e > 0 /\ n % 2 = 0 THEN Reduce(n \div 2, e - 1)
  ELSE [k |-> "fin", n |-> n, e |-> e]

Fin(n, e) == Reduce(n, e)
PosInf == [k |-> "inf", n |-> 1, e |-> 0]
NegInf == [k |-> "inf", n |-> -1, e |-> 0]
NaN == [k |-> "nan", n |-> 0, e |-> 0]

Sgn(n) == IF n > 0 THEN 1 ELSE IF n < 0 THEN -1 ELSE 0

\* a * b on f64
FMul(a, b) ==
  IF a.k = "nan" \/ b.k = "nan" THEN NaN
  ELSE IF a.k = "inf" \/ b.k = "inf" THEN
    IF a.n = 0 \/ b.n = 0 THEN NaN
    ELSE IF Sgn(a.n) * Sgn(b.n) = 1 THEN PosInf ELSE NegInf
  ELSE Reduce(a.n * b.n, a.e + b.e)

\* a + b on f64
FAdd(a, b) ==
  IF a.k = "nan" \/ b.k = "nan" THEN NaN
  ELSE IF a.k = "inf" /\ b.k = "inf" THEN (IF a.n = b.n THEN a ELSE NaN)
  ELSE IF a.k = "inf" THEN a
  ELSE IF b.k = "inf" THEN b
  ELSE LET e == IF a.e > b.e THEN a.e ELSE b.e
       IN Reduce(a.n * Pow2(e - a.e) + b.n * Pow2(e - b.e), e)

FNeg(a) == [a EXCEPT !.n = -a.n]

\* a - b on f64
FSub(a, b) == FAdd(a, FNeg(b))

\* a > b on f64: false whenever an operand is NaN
FGt(a, b) ==
  IF a.k = "nan" \/ b.k = "nan" THEN FALSE
  ELSE IF a.k = "inf" THEN a.n = 1 /\ b # PosInf
  ELSE IF b.k = "inf" THEN b.n = -1
  ELSE LET e == IF a.e > b.e THEN a.e ELSE b.e
       IN a.n * Pow2(e - a.e) > b.n * Pow2(e - b.e)

(***************************************************************************)
(* num::Complex<f64>                                                       *)
(***************************************************************************)
Complex(re, im) == [re |-> re, im |-> im]

\* Complex { re: 0.0, im: 0.0 }
Zero == Complex(Fin(0, 0), Fin(0, 0))

\* a * b: (a.re*b.re - a.im*b.im, a.re*b.im + a.im*b.re)
CMul(a, b) ==
  Complex(FSub(FMul(a.re, b.re), FMul(a.im, b.im)),
          FAdd(FMul(a.re, b.im), FMul(a.im, b.re)))

\* a + b
CAdd(a, b) == Complex(FAdd(a.re, b.re), FAdd(a.im, b.im))

\* z.norm_sqr(): re*re + im*im
norm_sqr(a) == FAdd(FMul(a.re, a.re), FMul(a.im, a.im))

(***************************************************************************)
(* escape_time                                                             *)
(***************************************************************************)
\* the threshold 4.0 of the comparison
Threshold == 4

\* the first index of the range 0..limit
RangeStart == 0

\* mutant of in_range: an inclusive range 0..=limit
in_range_inclusive(i, lim) == i <= lim

\* the range 0..limit still has the index i
in_range(i, lim) == i < lim

\* mutant of square_add: the addition of c is forgotten
square_only(zz, cc) == CMul(zz, zz)

\* z = z * z + c
square_add(zz, cc) == CAdd(CMul(zz, zz), cc)

\* mutant of left_circle: a non-strict comparison
left_circle_ge(zz) ==
  FGt(norm_sqr(zz), Fin(Threshold, 0)) \/ norm_sqr(zz) = Fin(Threshold, 0)

\* mutant of left_circle: the radius 2 compared with the squared distance
left_circle_radius(zz) == FGt(norm_sqr(zz), Fin(2, 0))

\* z.norm_sqr() > 4.0
left_circle(zz) == FGt(norm_sqr(zz), Fin(Threshold, 0))

\* mutant of escaped_at: a one-based iteration count
escaped_at_count(i) == Some(i + 1)

\* return Some(i)
escaped_at(i) == Some(i)

RECURSIVE for_loop(_, _, _, _, _)
\* the for loop from index i on, with accumulator zz; n counts the updates of
\* z performed so far.  Yields the returned value, the last z and the count.
for_loop(cc, lim, i, zz, n) ==
  IF ~in_range(i, lim) THEN [ret |-> None, z |-> zz, iters |-> n]
  ELSE LET z1 == square_add(zz, cc)
       IN IF left_circle(z1)
          THEN [ret |-> escaped_at(i), z |-> z1, iters |-> n + 1]
          ELSE for_loop(cc, lim, i + 1, z1, n + 1)

\* mutant of escape_time: the iterations left in the budget are returned
escape_time_remaining(cc, lim) ==
  LET r == for_loop(cc, lim, RangeStart, Zero, 0)
  IN IF r.ret.tag = "Some" THEN [r EXCEPT !.ret = Some(lim - r.ret.val)] ELSE r

\* escape_time(c, limit)
escape_time(cc, lim) == for_loop(cc, lim, RangeStart, Zero, 0)

(***************************************************************************)
(* Calls of escape_time                                                    *)
(***************************************************************************)
\* the values a component of c is drawn from
F64Inputs == {Fin(k, 1) : k \in -MaxC..MaxC} \cup {PosInf, NegInf, NaN}

CInputs == {Complex(a, b) : a \in F64Inputs, b \in F64Inputs}

NoPair == [kind |-> "None", l |-> 0, r |-> 0]

InitEscape ==
  /\ pc = "escape_time"
  /\ c \in CInputs
  /\ limit \in 0..MaxLimit
  /\ z = Zero
  /\ iters = 0
  /\ result = None
  /\ s = <<>>
  /\ separator = 0
  /\ parsed = NoPair

\* the call escape_time(c, limit) runs to its return
EscapeTimeCall ==
  /\ pc = "escape_time"
  /\ LET r == escape_time(c, limit)
     IN /\ result' = r.ret
        /\ z' = r.z
        /\ iters' = r.iters
  /\ pc' = "escape_returned"
  /\ UNCHANGED <<c, limit, s, separator, parsed>>

NextEscape == EscapeTimeCall

SpecEscape == InitEscape /\ [][NextEscape]_vars

EscapeReturned == pc = "escape_returned"

(***************************************************************************)
(* &str: a sequence of chars (code points) held as its UTF-8 bytes         *)
(***************************************************************************)
\* the UTF-8 encoding of the code point cp (one to three bytes)
encode_utf8(cp) ==
  IF cp < 128 THEN <<cp>>
  ELSE IF cp < 2048 THEN <<192 + (cp \div 64), 128 + (cp % 64)>>
  ELSE <<224 + (cp \div 4096), 128 + ((cp \div 64) % 64), 128 + (cp % 64)>>

RECURSIVE as_bytes(_)
\* the bytes of the string whose chars are cs
as_bytes(cs) ==
  IF cs = <<>> THEN <<>> ELSE encode_utf8(Head(cs)) \o as_bytes(Tail(cs))

\* b.is_char_boundary(idx): idx is 0, the length, or the index of a byte that
\* is not a continuation byte
is_char_boundary(b, idx) ==
  \/ idx = 0
  \/ idx = Len(b)
  \/ idx < Len(b) /\ b[idx + 1] \notin 128..191

\* s.find(separator): the byte index of the first match of the char
find(b, sep) ==
  LET pat == encode_utf8(sep)
      hits == {k \in 0..(Len(b) - Len(pat)) :
                 \A j \in 1..Len(pat) : b[k + j] = pat[j]}
  IN IF hits = {} THEN None
     ELSE Some(CHOOSE k \in hits : \A h \in hits : k <= h)

\* &s[from..to] is defined: otherwise the slice expression panics
slice_ok(b, from, to) ==
  /\ from <= to
  /\ to <= Len(b)
  /\ is_char_boundary(b, from)
  /\ is_char_boundary(b, to)

\* the bytes of &s[from..to]
slice(b, from, to) == SubSeq(b, from + 1, to)

(***************************************************************************)
(* <i32 as FromStr>::from_str                                              *)
(***************************************************************************)
I32_MAX == 2147483647
I32_MIN == -I32_MAX - 1

Err == [ok |-> FALSE, v |-> 0]
Ok(v) == [ok |-> TRUE, v |-> v]

RECURSIVE digits(_, _, _)
\* the digit loop: checked multiply by 10, then checked add (is_positive) or
\* checked subtract of each decimal digit; any other byte is an error
digits(b, acc, is_positive) ==
  IF b = <<>> THEN Ok(acc)
  ELSE LET d == Head(b) - 48
       IN IF d \notin 0..9 THEN Err
          ELSE IF is_positive
          THEN IF acc > I32_MAX \div 10 \/ acc * 10 > I32_MAX - d THEN Err
               ELSE digits(Tail(b), acc * 10 + d, is_positive)
          ELSE IF acc < -(I32_MAX \div 10) \/ acc * 10 < I32_MIN + d THEN Err
               ELSE digits(Tail(b), acc * 10 - d, is_positive)

\* i32::from_str(src): empty, a lone sign, a non-digit or an overflow fails
from_str(b) ==
  IF b = <<>> THEN Err
  ELSE IF Len(b) = 1 /\ Head(b) \in {43, 45} THEN Err
  ELSE IF Head(b) = 43 THEN digits(Tail(b), 0, TRUE)
  ELSE IF Head(b) = 45 THEN digits(Tail(b), 0, FALSE)
  ELSE digits(b, 0, TRUE)

(***************************************************************************)
(* parse_pair::<i32>                                                       *)
(***************************************************************************)
\* the outcomes of a call: the two Option values, or a panic that unwinds
\* out of the function
SomePair(l, r) == [kind |-> "Some", l |-> l, r |-> r]
Panic == [kind |-> "panic", l |-> 0, r |-> 0]

\* parse_pair(s, separator) on the string with chars cs
parse_pair(cs, sep) ==
  LET b == as_bytes(cs)
      found == find(b, sep)
  IN IF found = None THEN NoPair
     ELSE LET index == found.val
              from == index + 1
          IN IF ~slice_ok(b, 0, index) THEN Panic
             ELSE IF ~slice_ok(b, from, Len(b)) THEN Panic
             ELSE LET l == from_str(slice(b, 0, index))
                      r == from_str(slice(b, from, Len(b)))
                  IN IF l.ok /\ r.ok THEN SomePair(l.v, r.v) ELSE NoPair

(***************************************************************************)
(* Calls of parse_pair                                                     *)
(***************************************************************************)
\* the chars of the model: '1', '2', '-', ',', 'x' and the two-byte U+00E9
Chars == {49, 50, 45, 44, 120, 233}

Strings == UNION {[1..n -> Chars] : n \in 0..MaxLen}

InitParse ==
  /\ pc = "parse_pair"
  /\ s \in Strings
  /\ separator \in Chars
  /\ parsed = NoPair
  /\ c = Zero
  /\ limit = 0
  /\ z = Zero
  /\ iters = 0
  /\ result = None

\* the call parse_pair::<i32>(s, separator) runs to its return or its panic
ParsePairCall ==
  /\ pc = "parse_pair"
  /\ parsed' = parse_pair(s, separator)
  /\ pc' = "parse_returned"
  /\ UNCHANGED <<s, separator, c, limit, z, iters, result>>

NextParse == ParsePairCall

SpecParse == InitParse /\ [][NextParse]_vars

ParseReturned == pc = "parse_returned"

(***************************************************************************)
(* Properties of escape_time                                               *)
(***************************************************************************)
RECURSIVE Orbit(_, _)
\* the k-th iterate of z := z*z + cc from z = 0, by direct computation
Orbit(cc, k) ==
  IF k = 0 THEN Complex(Fin(0, 0), Fin(0, 0))
  ELSE LET p == Orbit(cc, k - 1) IN CAdd(CMul(p, p), cc)

\* after the update of iteration index j the squared magnitude exceeds 4
Exceeds(cc, j) == FGt(norm_sqr(Orbit(cc, j + 1)), Fin(4, 0))

\* i is the smallest iteration index whose update exceeds the threshold
FirstExceeding(cc, i) ==
  /\ \A j \in 0..(i - 1) : ~Exceeds(cc, j)
  /\ Exceeds(cc, i)

\* C2: escape_time(c, limit) returns Some(i) exactly when i is the smallest
\* 0-based iteration index below limit at which the squared magnitude of z,
\* after the update z := z*z + c, is strictly greater than 4, and it stops
\* iterating there (z is that iterate); it returns None exactly when no index
\* in 0..limit-1 exceeds the threshold.
C2_SomeIffFirstExceedingIndex ==
  EscapeReturned =>
    /\ \A i \in 0..(limit - 1) : (result = Some(i)) <=> FirstExceeding(c, i)
    /\ (result = None) <=> (\A j \in 0..(limit - 1) : ~Exceeds(c, j))
    /\ result.tag = "Some" =>
         /\ result.val \in 0..(limit - 1)
         /\ z = Orbit(c, result.val + 1)

\* C2 witness: an escape found at index 2, after two updates that did not
\* exceed the threshold
C2_Witness ==
  /\ EscapeReturned
  /\ result = Some(2)
  /\ ~Exceeds(c, 0) /\ ~Exceeds(c, 1)

\* C4: if escape_time(c, L) returns Some(i), then escape_time(c, L2) returns
\* Some(i) for every L2 > i.
C4_EscapeIndexIndependentOfLimit ==
  (EscapeReturned /\ result.tag = "Some") =>
    \A L2 \in (result.val + 1)..(MaxLimit + 1) :
      escape_time(c, L2).ret = result

\* C4 witness: an escape at index 1 under limit 2, compared with the limits
\* above 2
C4_Witness ==
  /\ EscapeReturned
  /\ result = Some(1)
  /\ limit = 2
  /\ limit < MaxLimit

\* C5: escape_time(c, 0) returns None, performs no iteration and leaves z at
\* (0, 0).
C5_ZeroLimitIsNone ==
  (EscapeReturned /\ limit = 0) =>
    /\ result = None
    /\ iters = 0
    /\ z = Complex(Fin(0, 0), Fin(0, 0))

\* C5 witness: a call with limit 0 on a c whose first update would escape
C5_Witness ==
  /\ EscapeReturned
  /\ limit = 0
  /\ Exceeds(c, 0)

\* 4 * f for a finite f with at most two fractional bits
Quarters(f) == f.n * Pow2(2 - f.e)

\* cc is a point of the Mandelbrot set with |cc| <= 2, decided in closed form:
\* the real segment [-2, 1/4], the main cardioid, the period-2 disc
\* |cc + 1| <= 1/4, and the preperiodic points i and -i.  (x, y) = (X/4, Y/4).
InMandelbrot(cc) ==
  /\ cc.re.k = "fin" /\ cc.im.k = "fin"
  /\ cc.re.e <= 2 /\ cc.im.e <= 2
  /\ LET X == Quarters(cc.re)
         Y == Quarters(cc.im)
         Q == (X - 1) * (X - 1) + Y * Y
     IN /\ X * X + Y * Y <= 64
        /\ \/ Y = 0 /\ -8 <= X /\ X <= 1
           \/ Q * (Q + 4 * (X - 1)) <= 4 * Y * Y
           \/ (X + 4) * (X + 4) + Y * Y <= 1
           \/ X = 0 /\ (Y = 4 \/ Y = -4)

\* C8: for every limit and every c of the Mandelbrot set with |c| <= 2,
\* escape_time(c, limit) returns None; a squared magnitude equal to 4 is not
\* an escape.
C8_MembersAreInconclusive ==
  (EscapeReturned /\ InMandelbrot(c)) => result = None

\* C8 witness: c = -2, whose orbit reaches squared magnitude exactly 4
C8_Witness ==
  /\ EscapeReturned
  /\ c = Complex(Fin(-2, 0), Fin(0, 0))
  /\ limit >= 2
  /\ norm_sqr(z) = Fin(4, 0)
  /\ result = None

\* C9: for every c whose squared magnitude is greater than 4 and every
\* limit >= 1, escape_time(c, limit) returns Some(0).
C9_LargeCEscapesAtZero ==
  (EscapeReturned /\ FGt(norm_sqr(c), Fin(4, 0)) /\ limit >= 1) =>
    result = Some(0)

\* C9 witness: a finite c outside the circle, under the largest limit
C9_Witness ==
  /\ EscapeReturned
  /\ c.re.k = "fin" /\ c.im.k = "fin"
  /\ FGt(norm_sqr(c), Fin(4, 0))
  /\ limit = MaxLimit
  /\ result = Some(0)

Occurs(cs, sep) == \E p \in 1..Len(cs) : cs[p] = sep

\* the position of the first occurrence of sep among the chars of cs
FirstAt(cs, sep) ==
  CHOOSE p \in 1..Len(cs) : cs[p] = sep /\ \A q \in 1..(p - 1) : cs[q] # sep

\* the chars before and after the first occurrence of sep
LeftOf(cs, sep) == SubSeq(cs, 1, FirstAt(cs, sep) - 1)
RightOf(cs, sep) == SubSeq(cs, FirstAt(cs, sep) + 1, Len(cs))

\* the i32 parse of the string with chars cs
ParseI32(cs) == from_str(as_bytes(cs))

\* what the contract of parse_pair prescribes for (cs, sep)
Prescribed(cs, sep) ==
  IF Occurs(cs, sep)
       /\ ParseI32(LeftOf(cs, sep)).ok /\ ParseI32(RightOf(cs, sep)).ok
  THEN SomePair(ParseI32(LeftOf(cs, sep)).v, ParseI32(RightOf(cs, sep)).v)
  ELSE NoPair

\* C1: for every string s and separator sep, parse_pair(s, sep) returns
\* Some((l, r)) exactly when sep occurs in s and the substrings before and
\* after its first occurrence both parse, l and r being their values in that
\* order; in every other case it returns None.
C1_SomeIffBothSidesParse ==
  ParseReturned => parsed = Prescribed(s, separator)

\* C1 restricted to separators encoded in one byte
C1_OneByteSeparators ==
  (ParseReturned /\ separator < 128) => parsed = Prescribed(s, separator)

\* C3: parse_pair never raises a fault: every call returns Some((l, r)) or
\* None as an ordinary value.
C3_NeverPanics ==
  ParseReturned => parsed.kind \in {"Some", "None"}

\* C3 restricted to separators encoded in one byte
C3_OneByteSeparators ==
  (ParseReturned /\ separator < 128) => parsed.kind \in {"Some", "None"}

\* the chars of an i32 literal: the decimal digits, '+' and '-'
NumericChars == 48..57 \cup {43, 45}

\* cs is a valid number followed by trailing chars that start with a
\* non-numeric char
TrailingGarbage(cs) ==
  \E k \in 1..(Len(cs) - 1) :
    /\ ParseI32(SubSeq(cs, 1, k)).ok
    /\ cs[k + 1] \notin NumericChars

\* the malformed input shapes: no separator, an empty left or right
\* substring, or a right substring with trailing garbage
Malformed(cs, sep) ==
  \/ ~Occurs(cs, sep)
  \/ LeftOf(cs, sep) = <<>>
  \/ RightOf(cs, sep) = <<>>
  \/ TrailingGarbage(RightOf(cs, sep))

\* C6: parse_pair returns None for every malformed input shape.
C6_MalformedIsNone ==
  (ParseReturned /\ Malformed(s, separator)) => parsed = NoPair

\* C6 restricted to separators encoded in one byte
C6_OneByteSeparators ==
  (ParseReturned /\ separator < 128 /\ Malformed(s, separator)) =>
    parsed = NoPair

\* cs with every char a replaced by b
Replace(cs, a, b) == [p \in 1..Len(cs) |-> IF cs[p] = a THEN b ELSE cs[p]]

\* s is left + separator + right with no other occurrence of the separator,
\* and the separator is no char of a numeric literal
SingleSeparator ==
  /\ separator \notin NumericChars
  /\ Cardinality({p \in 1..Len(s) : s[p] = separator}) = 1

\* C7: for separators a and b that appear in no numeric literal and strings
\* left and right containing neither, parse_pair(left + a + right, a) and
\* parse_pair(left + b + right, b) give the identical outcome.
C7_SeparatorIndependence ==
  (ParseReturned /\ SingleSeparator) =>
    \A b \in Chars \ NumericChars :
      ~Occurs(s, b) => parse_pair(Replace(s, separator, b), b) = parsed

\* C7 restricted to separators encoded in one byte
C7_OneByteSeparators ==
  (ParseReturned /\ SingleSeparator /\ separator < 128) =>
    \A b \in (Chars \ NumericChars) \cap 0..127 :
      ~Occurs(s, b) => parse_pair(Replace(s, separator, b), b) = parsed

====
